---------------------------- MODULE Spec2Model ----------------------------
(***************************************************************************)
(* A model of the pl0dash-compiler front end: the Tokenizer                *)
(* (tokenizer.rs, char_class.rs, keyword.rs, symbol.rs) and the            *)
(* recursive-descent Parser (parser.rs).                                   *)
(*                                                                         *)
(* A byte is a one-character string; the source text is a sequence of      *)
(* bytes.  The Tokenizer's state is its reader position `pos' (the number  *)
(* of bytes already taken from the BufReader) and `current_byte'.          *)
(* get_next_token is a function of that state, computed as the code        *)
(* computes it; the Parser is a stack machine with one frame per active    *)
(* production procedure.                                                   *)
(***************************************************************************)
EXTENDS Integers, Sequences, FiniteSets, TLC

VARIABLES
    mode,           \* "lex": the token loop of tests::test_export_xml; "parse": Parser;
                    \* "batch": Analyzer::run on a directory
    input,          \* the bytes of the source file
    current_byte,   \* Tokenizer.current_byte
    pos,            \* bytes the Tokenizer's reader has handed out so far
    current_token,  \* Parser.current_token (what get_next_token returned last)
    stack,          \* the Parser's active procedures, innermost last
    tree,           \* the SyntaxTree returned by Parser::parse
    status,         \* where the run is: see Init and the actions
    results,        \* the tokens the token loop has written so far
    history,        \* the get_next_token calls made so far: for each, the
                    \* Tokenizer state before and after it and its outcome
    depth,          \* SyntaxTreeVisitor.depth
    output,         \* the lines SyntaxTreeVisitor::visit has printed
    files,          \* the entries of the directory given to Analyzer::run
    next_file,      \* the entry Analyzer::run's loop is at
    attempted       \* the entries Analyzer::run has tried to open

vars == <<mode, input, current_byte, pos, current_token, stack, tree, status,
          results, history, depth, output, files, next_file, attempted>>

\* the variables of the tree emitter and of the batch driver
others == <<depth, output, files, next_file, attempted>>

---------------------------------------------------------------------------
(* Bounds of the model *)

\* longest byte string enumerated over LexBytes
MaxLen == 4
\* longest lexeme string enumerated over Lexemes
MaxToks == 4
\* get_next_token calls after which a parse is cut off
MaxCalls == 16
\* tokens after which the token loop is cut off
MaxResults == 4
\* active procedures after which the native call stack is taken to overflow
MaxDepth == 14
\* most entries of a directory given to Analyzer::run
MaxFiles == 3

---------------------------------------------------------------------------
(* Bytes and their classes: char_class.rs *)

NUL == "NUL"
Digits == {"0", "1", "2", "3", "4", "5", "6", "7", "8", "9"}
Letters == {"a", "b", "c", "d", "e", "f", "g", "h", "i", "j", "k", "l", "m",
            "n", "o", "p", "q", "r", "s", "t", "u", "v", "w", "x", "y", "z",
            "A", "B", "Z"}
Whitespace == {" ", "\t", "\n", "\f", "\r"}

\* u8::is_ascii_whitespace, and the `== b'\n'` next to it
IsWhitespace(b) == b \in Whitespace \/ b = "\n"

from_u8(b) ==
    CASE b \in Digits  -> "Digit"
      [] b \in Letters -> "Letter"
      [] b = "+" -> "Plus"
      [] b = "-" -> "Minus"
      [] b = "*" -> "Aster"
      [] b = "/" -> "Slash"
      [] b = "(" -> "Lparen"
      [] b = ")" -> "Rparen"
      [] b = "=" -> "Equal"
      [] b = "<" -> "Lss"
      [] b = ">" -> "Gtr"
      [] b = "," -> "Comma"
      [] b = "." -> "Period"
      [] b = ";" -> "Semicolon"
      [] b = ":" -> "Colon"
      [] OTHER   -> "Other"

---------------------------------------------------------------------------
(* Tokens: tokenizer.rs Token, keyword.rs, symbol.rs *)

NoTok == [kind |-> "None", kw |-> "", sym |-> "", id |-> <<>>, num |-> 0]
KwTok(k)  == [NoTok EXCEPT !.kind = "Keyword", !.kw = k]
SymTok(s) == [NoTok EXCEPT !.kind = "Symbol", !.sym = s]
IdTok(w)  == [NoTok EXCEPT !.kind = "Identifier", !.id = w]
NumTok(n) == [NoTok EXCEPT !.kind = "Number", !.num = n]

\* Result<Token, TokenizerError>
OkR(t)  == [ok |-> TRUE,  tok |-> t,     err |-> ""]
ErrR(e) == [ok |-> FALSE, tok |-> NoTok, err |-> e]

\* KeywordTryFrom with an empty table: no word is reserved
KeywordTryFrom_NoMatch(w) == ""

\* Keyword::try_from(&str): "" stands for Err(UndefinedKeywordError)
KeywordTryFrom(w) ==
    CASE w = <<"b","e","g","i","n">>             -> "Begin"
      [] w = <<"e","n","d">>                     -> "End"
      [] w = <<"i","f">>                         -> "If"
      [] w = <<"t","h","e","n">>                 -> "Then"
      [] w = <<"w","h","i","l","e">>             -> "While"
      [] w = <<"d","o">>                         -> "Do"
      [] w = <<"r","e","t","u","r","n">>         -> "Ret"
      [] w = <<"f","u","n","c","t","i","o","n">> -> "Func"
      [] w = <<"v","a","r">>                     -> "Var"
      [] w = <<"c","o","n","s","t">>             -> "Const"
      [] w = <<"o","d","d">>                     -> "Odd"
      [] w = <<"w","r","i","t","e">>             -> "Write"
      [] w = <<"w","r","i","t","e","l","n">>     -> "WriteLn"
      [] OTHER                                   -> ""

\* Symbol::try_from as get_next_token uses it, on the class of one byte:
\* "" stands for Err(UndefinedSymbol)
SymbolTryFrom(cc) ==
    CASE cc = "Plus"      -> "Plus"
      [] cc = "Minus"     -> "Minus"
      [] cc = "Aster"     -> "Mult"
      [] cc = "Slash"     -> "Div"
      [] cc = "Lparen"    -> "Lparen"
      [] cc = "Rparen"    -> "Rparen"
      [] cc = "Equal"     -> "Equal"
      [] cc = "Lss"       -> "Lss"
      [] cc = "Gtr"       -> "Gtr"
      [] cc = "Comma"     -> "Comma"
      [] cc = "Period"    -> "Period"
      [] cc = "Semicolon" -> "SemiColon"
      [] OTHER            -> ""

---------------------------------------------------------------------------
(* The Tokenizer: tokenizer.rs.  A Tokenizer state is a record             *)
(* [cur, pos]; a call's outcome is [st, res, cur, pos] with st = "Ret"     *)
(* when the call returns res, and st = "Hang" when it never returns.       *)

\* Tokenizer::new: read_exact on an empty file leaves the zeroed buffer
NewCur(inp) == IF Len(inp) > 0 THEN inp[1] ELSE NUL
NewPos(inp) == IF Len(inp) > 0 THEN 1 ELSE 0

\* _read_next_byte: at end of file it returns Err(ReachedEOF) and leaves
\* current_byte as it was
ReadNextByte(inp, cur, p) ==
    IF p < Len(inp)
    THEN [ok |-> TRUE,  cur |-> inp[p + 1], pos |-> p + 1]
    ELSE [ok |-> FALSE, cur |-> cur,        pos |-> p]

Ret(r, cur, p) == [st |-> "Ret", res |-> r, cur |-> cur, pos |-> p]
Hang(cur, p)   == [st |-> "Hang", res |-> ErrR(""), cur |-> cur, pos |-> p]

\* 10*acc + d in the i32 arithmetic of a release build (wrapping), computed
\* on 16-bit halves so that no intermediate value leaves 32 bits
MulAdd32(acc, d) ==
    LET lo == acc % 65536
        hi == (acc - lo) \div 65536
        t  == 10 * lo + d
        h  == 10 * hi + (t \div 65536)
    IN  (((h + 32768) % 65536) - 32768) * 65536 + (t % 65536)

DigitVal(b) ==
    CASE b = "0" -> 0 [] b = "1" -> 1 [] b = "2" -> 2 [] b = "3" -> 3
      [] b = "4" -> 4 [] b = "5" -> 5 [] b = "6" -> 6 [] b = "7" -> 7
      [] b = "8" -> 8 [] b = "9" -> 9

RECURSIVE FoldDigits(_, _)
FoldDigits(digits, acc) ==
    IF digits = <<>> THEN acc
    ELSE FoldDigits(Tail(digits), MulAdd32(acc, DigitVal(Head(digits))))

\* _tokenize_number
RECURSIVE NumberLoop(_, _, _, _)
NumberLoop(inp, digits, cur, p) ==
    LET rd == ReadNextByte(inp, cur, p) IN
    IF rd.ok /\ rd.cur \in Digits
    THEN NumberLoop(inp, Append(digits, rd.cur), rd.cur, rd.pos)
    ELSE Ret(OkR(NumTok(FoldDigits(digits, 0))), rd.cur, rd.pos)

TokenizeNumber(inp, cur, p) == NumberLoop(inp, <<cur>>, cur, p)

\* _tokenize_identifier
RECURSIVE IdentifierLoop(_, _, _, _)
IdentifierLoop(inp, chars, cur, p) ==
    LET rd == ReadNextByte(inp, cur, p) IN
    IF rd.ok /\ from_u8(rd.cur) \in {"Digit", "Letter"}
    THEN IdentifierLoop(inp, Append(chars, rd.cur), rd.cur, rd.pos)
    ELSE LET kw == KeywordTryFrom(chars) IN
         Ret(OkR(IF kw # "" THEN KwTok(kw) ELSE IdTok(chars)), rd.cur, rd.pos)

TokenizeIdentifier(inp, cur, p) == IdentifierLoop(inp, <<cur>>, cur, p)

\* CharClass::Colon arm
TokColon(inp, cur, p) ==
    LET rd == ReadNextByte(inp, cur, p) IN
    IF ~rd.ok THEN Ret(ErrR("ReachedEOF"), rd.cur, rd.pos)
    ELSE IF from_u8(rd.cur) = "Equal"
         THEN LET r2 == ReadNextByte(inp, rd.cur, rd.pos) IN
              Ret(OkR(SymTok("Assign")), r2.cur, r2.pos)
         ELSE Ret(ErrR("UndefinedToken"), rd.cur, rd.pos)

\* TokLss with the byte after a lone '<' discarded instead of kept
TokLss_DropsByte(inp, cur, p) ==
    LET rd == ReadNextByte(inp, cur, p)
        r2 == ReadNextByte(inp, rd.cur, rd.pos) IN
    CASE from_u8(rd.cur) = "Equal" -> Ret(OkR(SymTok("LssEq")), r2.cur, r2.pos)
      [] from_u8(rd.cur) = "Gtr"   -> Ret(OkR(SymTok("NotEq")), r2.cur, r2.pos)
      [] OTHER                     -> Ret(OkR(SymTok("Lss")), r2.cur, r2.pos)

\* CharClass::Lss arm
TokLss(inp, cur, p) ==
    LET rd == ReadNextByte(inp, cur, p)
        r2 == ReadNextByte(inp, rd.cur, rd.pos) IN
    CASE from_u8(rd.cur) = "Equal" -> Ret(OkR(SymTok("LssEq")), r2.cur, r2.pos)
      [] from_u8(rd.cur) = "Gtr"   -> Ret(OkR(SymTok("NotEq")), r2.cur, r2.pos)
      [] OTHER                     -> Ret(OkR(SymTok("Lss")), rd.cur, rd.pos)

\* CharClass::Gtr arm
TokGtr(inp, cur, p) ==
    LET rd == ReadNextByte(inp, cur, p)
        r2 == ReadNextByte(inp, rd.cur, rd.pos) IN
    CASE from_u8(rd.cur) = "Equal" -> Ret(OkR(SymTok("GtrEq")), r2.cur, r2.pos)
      [] OTHER                     -> Ret(OkR(SymTok("Gtr")), rd.cur, rd.pos)

\* _read_until(b'*'): BufRead::read_until takes bytes up to and including
\* the next '*', or up to the end of the file, and is Ok either way
RECURSIVE ReadUntilAster(_, _)
ReadUntilAster(inp, p) ==
    IF p >= Len(inp) THEN p
    ELSE IF inp[p + 1] = "*" THEN p + 1
    ELSE ReadUntilAster(inp, p + 1)

\* The comment loop of the CharClass::Slash arm.  Its value is the Tokenizer
\* state at the `break', or a hang: once the reader is at the end of the
\* file an iteration reads nothing and leaves current_byte = '*', so the
\* loop repeats in the same state for ever.
RECURSIVE CommentLoop(_, _)
CommentLoop(inp, p) ==
    IF p >= Len(inp) THEN [brk |-> FALSE, cur |-> "*", pos |-> p]
    ELSE LET q  == ReadUntilAster(inp, p)
             rd == ReadNextByte(inp, "*", q) IN
         IF rd.cur = "/"
         THEN LET r2 == ReadNextByte(inp, rd.cur, rd.pos) IN
              [brk |-> TRUE, cur |-> r2.cur, pos |-> r2.pos]
         ELSE CommentLoop(inp, rd.pos)

\* the symbol-table arm (`cc =>')
TokSymbol(inp, cur, p) ==
    LET sym == SymbolTryFrom(from_u8(cur)) IN
    IF sym # ""
    THEN LET rd == ReadNextByte(inp, cur, p) IN
         Ret(OkR(SymTok(sym)), rd.cur, rd.pos)
    ELSE Ret(ErrR("UndefinedToken"), cur, p)

\* the whitespace loop at the head of get_next_token
RECURSIVE SkipWhitespace(_, _, _)
SkipWhitespace(inp, cur, p) ==
    IF ~IsWhitespace(cur) THEN [ok |-> TRUE, cur |-> cur, pos |-> p]
    ELSE LET rd == ReadNextByte(inp, cur, p) IN
         IF rd.ok THEN SkipWhitespace(inp, rd.cur, rd.pos)
         ELSE [ok |-> FALSE, cur |-> cur, pos |-> p]

RECURSIVE get_next_token(_, _, _)
\* CharClass::Slash arm
TokSlash(inp, cur, p) ==
    LET rd == ReadNextByte(inp, cur, p) IN
    IF from_u8(rd.cur) = "Aster"
    THEN LET c == CommentLoop(inp, rd.pos) IN
         IF c.brk THEN get_next_token(inp, c.cur, c.pos)
         ELSE Hang(c.cur, c.pos)
    ELSE Ret(OkR(SymTok("Div")), rd.cur, rd.pos)

get_next_token(inp, cur, p) ==
    LET ws == SkipWhitespace(inp, cur, p)
        cc == from_u8(ws.cur) IN
    IF ~ws.ok THEN Ret(ErrR("ReachedEOF"), ws.cur, ws.pos)
    ELSE CASE cc = "Digit"  -> TokenizeNumber(inp, ws.cur, ws.pos)
           [] cc = "Letter" -> TokenizeIdentifier(inp, ws.cur, ws.pos)
           [] cc = "Colon"  -> TokColon(inp, ws.cur, ws.pos)
           [] cc = "Lss"    -> TokLss(inp, ws.cur, ws.pos)
           [] cc = "Gtr"    -> TokGtr(inp, ws.cur, ws.pos)
           [] cc = "Slash"  -> TokSlash(inp, ws.cur, ws.pos)
           [] OTHER         -> TokSymbol(inp, ws.cur, ws.pos)

---------------------------------------------------------------------------
(* Syntax trees: parser.rs Syntax, SyntaxNode, SyntaxTree *)

\* SyntaxNode::new(syntax); the token of a non-terminal is a placeholder
NewNode(syntax) == [syntax |-> syntax, token |-> ErrR(""), children |-> <<>>]
\* SyntaxNode::new(Syntax::Token(t)); t is what current_token holds
Terminal(t) == [syntax |-> "Token", token |-> t, children |-> <<>>]
\* SyntaxNode::append_child
AppendChild(node, child) == [node EXCEPT !.children = Append(@, child)]

NoTree == NewNode("None")

IsKw(r, k)  == r.ok /\ r.tok.kind = "Keyword" /\ r.tok.kw = k
IsSym(r, s) == r.ok /\ r.tok.kind = "Symbol" /\ r.tok.sym = s
IsKind(r, k) == r.ok /\ r.tok.kind = k

---------------------------------------------------------------------------
(* Source texts *)

W_begin    == <<"b","e","g","i","n">>
W_end      == <<"e","n","d">>
W_if       == <<"i","f">>
W_then     == <<"t","h","e","n">>
W_while    == <<"w","h","i","l","e">>
W_do       == <<"d","o">>
W_return   == <<"r","e","t","u","r","n">>
W_function == <<"f","u","n","c","t","i","o","n">>
W_var      == <<"v","a","r">>
W_const    == <<"c","o","n","s","t">>
W_odd      == <<"o","d","d">>
W_write    == <<"w","r","i","t","e">>
W_writeln  == <<"w","r","i","t","e","l","n">>

RECURSIVE Cat(_)
Cat(parts) == IF parts = <<>> THEN <<>> ELSE Head(parts) \o Cat(Tail(parts))

\* the lexemes separated by single spaces, with a trailing space if asked
RECURSIVE Join(_, _)
Join(ls, trail) ==
    IF ls = <<>> THEN <<>>
    ELSE IF Len(ls) = 1 THEN Head(ls) \o (IF trail THEN <<" ">> ELSE <<>>)
    ELSE Head(ls) \o <<" ">> \o Join(Tail(ls), trail)

\* `function f(); var x; begin x := 1 end; write x.'
NestedSrc ==
    Cat(<<W_function, <<" ","f","(",")",";"," ">>, W_var, <<" ","x",";"," ">>,
          W_begin, <<" ","x"," ",":","="," ","1"," ">>, W_end, <<";"," ">>,
          W_write, <<" ","x",".">>>>)

\* programs that take the Parser through every production
Programs ==
    { NestedSrc,
      \* const a = 1, b = 2; var x, y; x := a + b * (x - 1) / y .
      Join(<<W_const, <<"a">>, <<"=">>, <<"1">>, <<",">>, <<"b">>, <<"=">>,
             <<"2">>, <<";">>, W_var, <<"x">>, <<",">>, <<"y">>, <<";">>,
             <<".">>>>, TRUE),
      Join(<<<<"x">>, <<":","=">>, <<"-">>, <<"a">>, <<"+">>, <<"b">>, <<"*">>,
             <<"(">>, <<"x">>, <<"-">>, <<"1">>, <<")">>, <<"/">>, <<"y">>,
             <<".">>>>, TRUE),
      \* function f(a, b) return a ; .    function g() ; .
      Join(<<W_function, <<"f">>, <<"(">>, <<"a">>, <<",">>, <<"b">>, <<")">>,
             W_return, <<"a">>, <<";">>, <<".">>>>, TRUE),
      Join(<<W_function, <<"g">>, <<"(">>, <<")">>, <<";">>, <<".">>>>, TRUE),
      \* write f(x, 1) + g() + x .
      Join(<<W_write, <<"f">>, <<"(">>, <<"x">>, <<",">>, <<"1">>, <<")">>,
             <<"+">>, <<"g">>, <<"(">>, <<")">>, <<"+">>, <<"x">>, <<".">>>>,
           TRUE),
      \* begin writeln ; x := 1 ; end .     (the last statement is empty)
      Join(<<W_begin, W_writeln, <<";">>, <<"x">>, <<":","=">>, <<"1">>,
             <<";">>, W_end, <<".">>>>, TRUE),
      \* if x <= 1 then writeln .      while odd x do x := 1 .
      Join(<<W_if, <<"x">>, <<"<","=">>, <<"1">>, W_then, W_writeln,
             <<".">>>>, TRUE),
      Join(<<W_while, W_odd, <<"x">>, W_do, <<"x">>, <<":","=">>, <<"1">>,
             <<".">>>>, TRUE),
      \* texts the grammar does not derive
      Join(<<W_if, W_odd, <<"1">>, <<";">>, W_writeln, <<".">>>>, TRUE),
      Join(<<W_while, <<"x">>, <<"<",">">>, <<"1">>, <<";">>, W_writeln,
             <<".">>>>, TRUE),
      Join(<<W_const, <<"a">>, <<"+">>, <<"1">>, <<";">>, <<".">>>>, TRUE),
      Join(<<W_writeln, <<";">>>>, TRUE),
      Join(<<W_write, W_end, <<".">>>>, TRUE),
      Join(<<<<".">>, <<"x">>>>, TRUE),
      Join(<<W_write, <<"x">>, <<"*">>, <<"+">>, <<"y">>, <<")">>, <<".">>>>,
           TRUE),
      Join(<<W_if, <<"x">>, <<";">>, <<"1">>, <<";">>, W_writeln, <<".">>>>,
           TRUE),
      \* texts that end before the period
      Join(<<W_writeln>>, TRUE),
      Join(<<W_if, <<"x">>, <<"=">>, <<"1">>, W_then>>, TRUE) }

\* the bytes and lexemes the inputs are enumerated over
LexBytes == {" ", "a", "1", ":", "=", "<", ">", "/", "*", "?"}
Lexemes  == {<<"x">>, <<"(">>, <<")">>, <<".">>, <<"+">>, W_end}

SeqsUpTo(S, n) == UNION {[1..k -> S] : k \in 0..n}

\* texts with the numbers, words and comments that the byte strings above
\* are too short for
LexTexts ==
    { \* 2147483647, 2147483648, 0012
      <<"2","1","4","7","4","8","3","6","4","7"," ">>,
      <<"2","1","4","7","4","8","3","6","4","8"," ">>,
      <<"0","0","1","2","a"," ">>,
      \* words
      W_begin \o <<"x", " ">>,
      <<"B","e","g","i","n"," ">>,
      W_writeln \o <<" ">>,
      W_write \o <<"1", "+">>,
      W_end \o <<" ">> \o W_end \o <<"A"," ">>,
      \* comments: /***/a   /* a **/1   /*<newline>*/a/1   /**/a
      <<"/","*","*","*","/","a"," ">>,
      <<"/","*"," ","a"," ","*","*","/","1"," ">>,
      <<"/","*","\n","*","/","a","/","1"," ">>,
      <<"/","*","*","/","a"," ">> }

LexInputs == SeqsUpTo(LexBytes, MaxLen) \cup LexTexts
ParseInputs ==
    {Join(ls, t) : ls \in SeqsUpTo(Lexemes, MaxToks), t \in BOOLEAN} \cup Programs

---------------------------------------------------------------------------
(* Initial state: a source file has been opened and Tokenizer::new has     *)
(* read its first byte.                                                    *)

\* A directory entry: its extension ("" for none), whether File::open
\* succeeds on it, and whether Engine::compile returns on its text (it
\* panics on the first token it does not expect).
FileEntries == [ext : {"jack", "pl0", ""}, opens : BOOLEAN, compiles : BOOLEAN]
Dirs == SeqsUpTo(FileEntries, MaxFiles)

Init ==
    /\ \/ mode = "lex"   /\ input \in LexInputs   /\ status = "lexing" /\ files = <<>>
       \/ mode = "parse" /\ input \in ParseInputs /\ status = "new" /\ files = <<>>
       \/ mode = "batch" /\ input = <<>> /\ status = "walking" /\ files \in Dirs
    /\ current_byte = NewCur(input)
    /\ pos = NewPos(input)
    /\ current_token = ErrR("")
    /\ stack = <<>>
    /\ tree = NoTree
    /\ results = <<>>
    /\ history = <<>>
    /\ depth = 0
    /\ output = <<>>
    /\ next_file = 1
    /\ attempted = {}

\* the record of a get_next_token call made in the current state with
\* outcome r
Called(r) ==
    Append(history, [cur0 |-> current_byte, pos0 |-> pos, st |-> r.st,
                     res |-> r.res, cur1 |-> r.cur, pos1 |-> r.pos])

---------------------------------------------------------------------------
(* The token loop of tests::test_export_xml: one get_next_token call per   *)
(* step, until the call returns an error.                                  *)

test_export_xml ==
    /\ mode = "lex"
    /\ status = "lexing"
    /\ Len(results) < MaxResults
    /\ LET r == get_next_token(input, current_byte, pos) IN
       /\ current_byte' = r.cur
       /\ pos' = r.pos
       /\ history' = Called(r)
       /\ IF r.st = "Hang" THEN status' = "hang" /\ results' = results
          ELSE IF r.res.ok THEN status' = status /\ results' = Append(results, r.res.tok)
          ELSE IF r.res.err = "ReachedEOF" THEN status' = "eof" /\ results' = results
          ELSE status' = "panic" /\ results' = results
    /\ UNCHANGED <<mode, input, current_token, stack, tree, others>>

---------------------------------------------------------------------------
(* The Parser: parser.rs.  A frame is [fn, pc, node]: the procedure, the   *)
(* place in its body, and the node it is building.                         *)

Frame(fn, syntax) == [fn |-> fn, pc |-> "start", node |-> NewNode(syntax)]

SyntaxOf(fn) ==
    CASE fn = "parse_program"    -> "Program"
      [] fn = "compile_block"    -> "Block"
      [] fn = "parse_const_decl" -> "ConstDecl"
      [] fn = "parse_var_decl"   -> "VarDecl"
      [] fn = "parse_func_decl"  -> "FuncDecl"
      [] fn = "parse_statement"  -> "Statement"
      [] fn = "parse_condition"  -> "Condition"
      [] fn = "parse_expression" -> "Expression"
      [] fn = "parse_term"       -> "Term"
      [] fn = "parse_factor"     -> "Factor"

Top == stack[Len(stack)]
SetTop(f) == [stack EXCEPT ![Len(stack)] = f]
At(fn, pc) ==
    mode = "parse" /\ status = "running" /\ stack # <<>> /\ Top.fn = fn /\ Top.pc = pc

\* Parser::new: the first token is fetched into current_token
ParserNew ==
    /\ mode = "parse"
    /\ status = "new"
    /\ LET r == get_next_token(input, current_byte, pos) IN
       /\ current_byte' = r.cur
       /\ pos' = r.pos
       /\ history' = Called(r)
       /\ IF r.st = "Hang" THEN status' = "hang" /\ current_token' = current_token
          ELSE status' = "ready" /\ current_token' = r.res
    /\ UNCHANGED <<mode, input, stack, tree, results, others>>

\* Parser::parse: enters parse_program
parse ==
    /\ mode = "parse"
    /\ status = "ready"
    /\ stack' = <<Frame("parse_program", "Program")>>
    /\ status' = "running"
    /\ UNCHANGED <<mode, input, current_byte, pos, current_token, tree, results, history, others>>

\* self.current_token = self.tokenizer.get_next_token(), then go to pc `next';
\* `node' is the frame's node once the statement is done
Refill(node, next) ==
    LET r == get_next_token(input, current_byte, pos) IN
    /\ Len(history) < MaxCalls
    /\ history' = Called(r)
    /\ current_byte' = r.cur
    /\ pos' = r.pos
    /\ IF r.st = "Hang"
       THEN status' = "hang" /\ stack' = stack /\ current_token' = current_token
       ELSE /\ status' = status
            /\ current_token' = r.res
            /\ stack' = SetTop([Top EXCEPT !.pc = next, !.node = node])
    /\ UNCHANGED <<mode, input, tree, results, others>>

\* a parse_token that wraps the current token and requests no new one
parse_token_NoRefill(next) ==
    /\ stack' = SetTop([Top EXCEPT !.pc = next,
                                   !.node = AppendChild(@, Terminal(current_token))])
    /\ UNCHANGED <<mode, input, current_byte, pos, current_token, tree, status,
                   results, history, others>>

\* node.append_child(self.parse_token()), then go to pc `next'
parse_token(next) == Refill(AppendChild(Top.node, Terminal(current_token)), next)

\* the frame's own bookkeeping: go to pc `next' with node `node'
Goto(node, next) ==
    /\ stack' = SetTop([Top EXCEPT !.pc = next, !.node = node])
    /\ UNCHANGED <<mode, input, current_byte, pos, current_token, tree, status,
                   results, history, others>>

\* node.append_child(self.<fn>()): enter procedure fn; the caller resumes
\* at pc `next' with the returned node appended
Call(fn, next) ==
    /\ IF Len(stack) < MaxDepth
       THEN /\ stack' = Append(SetTop([Top EXCEPT !.pc = next]), Frame(fn, SyntaxOf(fn)))
            /\ status' = status
       ELSE stack' = stack /\ status' = "overflow"
    /\ UNCHANGED <<mode, input, current_byte, pos, current_token, tree, results, history, others>>

\* the procedure returns its node: to its caller, or out of Parser::parse
Return ==
    /\ IF Len(stack) = 1
       THEN stack' = <<>> /\ tree' = Top.node /\ status' = "done"
       ELSE /\ stack' = [i \in 1..(Len(stack) - 1) |->
                            IF i = Len(stack) - 1
                            THEN [stack[i] EXCEPT !.node = AppendChild(@, Top.node)]
                            ELSE stack[i]]
            /\ tree' = tree
            /\ status' = status
    /\ UNCHANGED <<mode, input, current_byte, pos, current_token, results, history, others>>

parse_program ==
    \/ At("parse_program", "start") /\ Call("compile_block", "period")
    \/ At("parse_program", "period") /\ parse_token("ret")
    \/ At("parse_program", "ret") /\ Return

compile_block ==
    \/ /\ At("compile_block", "start")
       /\ IsKw(current_token, "Const")
       /\ Refill(Top.node, "const")
    \/ /\ At("compile_block", "start")
       /\ IsKw(current_token, "Var")
       /\ Refill(Top.node, "var")
    \/ /\ At("compile_block", "start")
       /\ IsKw(current_token, "Func")
       /\ Refill(Top.node, "function")
    \/ At("compile_block", "const") /\ Call("parse_const_decl", "start")
    \/ At("compile_block", "var") /\ Call("parse_var_decl", "start")
    \/ At("compile_block", "function") /\ Call("parse_func_decl", "start")
    \/ /\ At("compile_block", "start")
       /\ ~IsKw(current_token, "Const")
       /\ ~IsKw(current_token, "Var")
       /\ ~IsKw(current_token, "Func")
       /\ Call("parse_statement", "ret")
    \/ At("compile_block", "ret") /\ Return

parse_const_decl ==
    \/ /\ At("parse_const_decl", "start")
       /\ Goto(AppendChild(Top.node, Terminal(OkR(KwTok("Const")))), "ident")
    \/ At("parse_const_decl", "ident") /\ parse_token("equal")
    \/ At("parse_const_decl", "equal") /\ parse_token("number")
    \/ At("parse_const_decl", "number") /\ parse_token("comma")
    \/ /\ At("parse_const_decl", "comma")
       /\ IsSym(current_token, "Comma")
       /\ parse_token("ident")
    \/ /\ At("parse_const_decl", "comma")
       /\ ~IsSym(current_token, "Comma")
       /\ parse_token("ret")
    \/ At("parse_const_decl", "ret") /\ Return

parse_var_decl ==
    \/ /\ At("parse_var_decl", "start")
       /\ Goto(AppendChild(Top.node, Terminal(OkR(KwTok("Var")))), "ident")
    \/ At("parse_var_decl", "ident") /\ parse_token("comma")
    \/ /\ At("parse_var_decl", "comma")
       /\ IsSym(current_token, "Comma")
       /\ parse_token("ident")
    \/ /\ At("parse_var_decl", "comma")
       /\ ~IsSym(current_token, "Comma")
       /\ parse_token("ret")
    \/ At("parse_var_decl", "ret") /\ Return

parse_func_decl ==
    \/ /\ At("parse_func_decl", "start")
       /\ Goto(AppendChild(Top.node, Terminal(OkR(KwTok("Func")))), "ident")
    \/ At("parse_func_decl", "ident") /\ parse_token("lparen")
    \/ At("parse_func_decl", "lparen") /\ parse_token("params")
    \/ /\ At("parse_func_decl", "params")
       /\ IsKind(current_token, "Identifier")
       /\ parse_token("comma")
    \/ /\ At("parse_func_decl", "comma")
       /\ IsSym(current_token, "Comma")
       /\ parse_token("params")
    \/ /\ \/ At("parse_func_decl", "params") /\ ~IsKind(current_token, "Identifier")
          \/ At("parse_func_decl", "comma") /\ ~IsSym(current_token, "Comma")
       /\ parse_token("block")
    \/ At("parse_func_decl", "block") /\ Call("compile_block", "semicolon")
    \/ At("parse_func_decl", "semicolon") /\ parse_token("ret")
    \/ At("parse_func_decl", "ret") /\ Return

\* a parse_statement whose default arm wraps the current token instead of
\* leaving it
parse_statement_TakesAny ==
    \/ /\ At("parse_statement", "start")
       /\ IsKind(current_token, "Identifier")
       /\ parse_token("assign")
    \/ At("parse_statement", "assign") /\ parse_token("expression")
    \/ /\ At("parse_statement", "start")
       /\ IsKw(current_token, "Begin")
       /\ parse_token("statement")
    \/ At("parse_statement", "statement") /\ Call("parse_statement", "semicolon")
    \/ /\ At("parse_statement", "semicolon")
       /\ IsSym(current_token, "SemiColon")
       /\ parse_token("statement")
    \/ /\ At("parse_statement", "semicolon")
       /\ ~IsSym(current_token, "SemiColon")
       /\ parse_token("ret")
    \/ /\ At("parse_statement", "start")
       /\ IsKw(current_token, "If")
       /\ parse_token("condition")
    \/ /\ At("parse_statement", "start")
       /\ IsKw(current_token, "While")
       /\ parse_token("condition")
    \/ At("parse_statement", "condition") /\ Call("parse_condition", "then_do")
    \/ At("parse_statement", "then_do") /\ parse_token("body")
    \/ At("parse_statement", "body") /\ Call("parse_statement", "ret")
    \/ /\ At("parse_statement", "start")
       /\ IsKw(current_token, "Ret")
       /\ parse_token("expression")
    \/ /\ At("parse_statement", "start")
       /\ IsKw(current_token, "Write")
       /\ parse_token("expression")
    \/ At("parse_statement", "expression") /\ Call("parse_expression", "ret")
    \/ /\ At("parse_statement", "start")
       /\ IsKw(current_token, "WriteLn")
       /\ parse_token("ret")
    \/ /\ At("parse_statement", "start")
       /\ ~IsKind(current_token, "Identifier")
       /\ \A k \in {"Begin", "If", "While", "Ret", "Write", "WriteLn"} :
              ~IsKw(current_token, k)
       /\ parse_token("ret")
    \/ At("parse_statement", "ret") /\ Return

parse_statement ==
    \/ /\ At("parse_statement", "start")
       /\ IsKind(current_token, "Identifier")
       /\ parse_token("assign")
    \/ At("parse_statement", "assign") /\ parse_token("expression")
    \/ /\ At("parse_statement", "start")
       /\ IsKw(current_token, "Begin")
       /\ parse_token("statement")
    \/ At("parse_statement", "statement") /\ Call("parse_statement", "semicolon")
    \/ /\ At("parse_statement", "semicolon")
       /\ IsSym(current_token, "SemiColon")
       /\ parse_token("statement")
    \/ /\ At("parse_statement", "semicolon")
       /\ ~IsSym(current_token, "SemiColon")
       /\ parse_token("ret")
    \/ /\ At("parse_statement", "start")
       /\ IsKw(current_token, "If")
       /\ parse_token("condition")
    \/ /\ At("parse_statement", "start")
       /\ IsKw(current_token, "While")
       /\ parse_token("condition")
    \/ At("parse_statement", "condition") /\ Call("parse_condition", "then_do")
    \/ At("parse_statement", "then_do") /\ parse_token("body")
    \/ At("parse_statement", "body") /\ Call("parse_statement", "ret")
    \/ /\ At("parse_statement", "start")
       /\ IsKw(current_token, "Ret")
       /\ parse_token("expression")
    \/ /\ At("parse_statement", "start")
       /\ IsKw(current_token, "Write")
       /\ parse_token("expression")
    \/ At("parse_statement", "expression") /\ Call("parse_expression", "ret")
    \/ /\ At("parse_statement", "start")
       /\ IsKw(current_token, "WriteLn")
       /\ parse_token("ret")
    \/ /\ At("parse_statement", "start")
       /\ ~IsKind(current_token, "Identifier")
       /\ \A k \in {"Begin", "If", "While", "Ret", "Write", "WriteLn"} :
              ~IsKw(current_token, k)
       /\ Return
    \/ At("parse_statement", "ret") /\ Return

parse_condition ==
    \/ /\ At("parse_condition", "start")
       /\ IsKw(current_token, "Odd")
       /\ parse_token("odd_expression")
    \/ At("parse_condition", "odd_expression") /\ Call("parse_expression", "ret")
    \/ /\ At("parse_condition", "start")
       /\ ~IsKw(current_token, "Odd")
       /\ Call("parse_expression", "relop")
    \/ At("parse_condition", "relop") /\ parse_token("rhs")
    \/ At("parse_condition", "rhs") /\ Call("parse_expression", "ret")
    \/ At("parse_condition", "ret") /\ Return

\* IsPlusMinus with the comma taken for a sign as well
IsPlusMinus_OrComma(r) == IsSym(r, "Plus") \/ IsSym(r, "Minus") \/ IsSym(r, "Comma")

IsPlusMinus(r) == IsSym(r, "Plus") \/ IsSym(r, "Minus")
IsMultDiv(r)   == IsSym(r, "Mult") \/ IsSym(r, "Div")

\* one pass through a `loop { if let Token::Symbol(sym) = ... { ... } }' whose
\* `if let' does not match: nothing is assigned, and the loop starts over
LoopAgain == UNCHANGED vars

parse_expression ==
    \/ /\ At("parse_expression", "start")
       /\ IsPlusMinus(current_token)
       /\ parse_token("term")
    \/ /\ At("parse_expression", "start")
       /\ ~IsPlusMinus(current_token)
       /\ Call("parse_term", "loop")
    \/ At("parse_expression", "term") /\ Call("parse_term", "loop")
    \/ /\ At("parse_expression", "loop")
       /\ IsPlusMinus(current_token)
       /\ parse_token("term")
    \/ /\ At("parse_expression", "loop")
       /\ ~IsPlusMinus(current_token)
       /\ IF IsKind(current_token, "Symbol") THEN Return ELSE LoopAgain

parse_term ==
    \/ At("parse_term", "start") /\ Call("parse_factor", "loop")
    \/ /\ At("parse_term", "loop")
       /\ IsMultDiv(current_token)
       /\ parse_token("factor")
    \/ At("parse_term", "factor") /\ Call("parse_factor", "loop")
    \/ /\ At("parse_term", "loop")
       /\ ~IsMultDiv(current_token)
       /\ IF IsKind(current_token, "Symbol") THEN Return ELSE LoopAgain

\* IsLparen with any symbol taken for the opening parenthesis
IsLparen_AnySymbol(r) == IsKind(r, "Symbol")

\* `Token::Symbol(Symbol::Lparen) == self.current_token'
IsLparen(r) == IsSym(r, "Lparen")

\* the match of parse_factor has arms for Identifier, Number and Symbol only;
\* for a keyword, or no token at all, the procedure either falls through
\* with an empty node or aborts
Abort ==
    /\ status' = "panic"
    /\ UNCHANGED <<mode, input, current_byte, pos, current_token, stack, tree,
                   results, history, others>>

parse_factor ==
    \/ /\ At("parse_factor", "start")
       /\ IsKind(current_token, "Identifier")
       /\ parse_token("ident")
    \/ /\ At("parse_factor", "ident")
       /\ IsLparen(current_token)
       /\ parse_token("args")
    \/ /\ At("parse_factor", "ident")
       /\ ~IsLparen(current_token)
       /\ Return
    \/ /\ At("parse_factor", "args")
       /\ ~IsSym(current_token, "Rparen")
       /\ Call("parse_expression", "comma")
    \/ /\ At("parse_factor", "comma")
       /\ IsSym(current_token, "Comma")
       /\ parse_token("arg")
    \/ At("parse_factor", "arg") /\ Call("parse_expression", "comma")
    \/ /\ \/ At("parse_factor", "args") /\ IsSym(current_token, "Rparen")
          \/ At("parse_factor", "comma") /\ ~IsSym(current_token, "Comma")
       /\ parse_token("ret")
    \/ /\ At("parse_factor", "start")
       /\ IsKind(current_token, "Number")
       /\ parse_token("ret")
    \/ /\ At("parse_factor", "start")
       /\ IsKind(current_token, "Symbol")
       /\ parse_token("expression")
    \/ At("parse_factor", "expression") /\ Call("parse_expression", "rparen")
    \/ At("parse_factor", "rparen") /\ parse_token("ret")
    \/ /\ At("parse_factor", "start")
       /\ ~current_token.ok \/ IsKind(current_token, "Keyword")
       /\ Return \/ Abort
    \/ At("parse_factor", "ret") /\ Return

---------------------------------------------------------------------------
(* The tree emitter: parser.rs SyntaxTreeVisitor.  A printed line is       *)
(* [indent, text]: the number of spaces print_indent wrote, and the pieces *)
(* of the text println! wrote after them.                                  *)

DigitChar(d) ==
    CASE d = 0 -> "0" [] d = 1 -> "1" [] d = 2 -> "2" [] d = 3 -> "3"
      [] d = 4 -> "4" [] d = 5 -> "5" [] d = 6 -> "6" [] d = 7 -> "7"
      [] d = 8 -> "8" [] d = 9 -> "9"

\* the decimal digits of n >= 0
RECURSIVE DecimalDigits(_)
DecimalDigits(n) ==
    IF n < 10 THEN <<DigitChar(n)>>
    ELSE DecimalDigits(n \div 10) \o <<DigitChar(n % 10)>>

\* {:?} of an i32
DebugI32(n) == IF n < 0 THEN <<"-">> \o DecimalDigits(0 - n) ELSE DecimalDigits(n)

\* {:?} of a Token
DebugTok(t) ==
    CASE t.kind = "Keyword"    -> <<"Keyword", "(", t.kw, ")">>
      [] t.kind = "Symbol"     -> <<"Symbol", "(", t.sym, ")">>
      [] t.kind = "Identifier" -> <<"Identifier", "(", "\"">> \o t.id \o <<"\"", ")">>
      [] t.kind = "Number"     -> <<"Number", "(">> \o DebugI32(t.num) \o <<")">>

\* {:?} of what a Terminal wraps: the Result get_next_token returned
DebugToken(r) ==
    IF r.ok THEN <<"Ok", "(">> \o DebugTok(r.tok) \o <<")">>
    ELSE <<"Err", "(", r.err, ")">>

\* {:?} of a node's Syntax
DebugSyntax(n) ==
    IF n.syntax = "Token" THEN <<"Token", "(">> \o DebugToken(n.token) \o <<")">>
    ELSE <<n.syntax>>

\* print_indent, then println!("<{:?}>", ..) or println!("</{:?}>", ..)
OpenLine(d, name)  == [indent |-> d, text |-> <<"<">> \o name \o <<">">>]
CloseLine(d, name) == [indent |-> d, text |-> <<"</">> \o name \o <<">">>]

\* CloseDepth with the decrement left out
CloseDepth_Keep(d) == d

\* self.depth += 1 and self.depth -= 1
OpenDepth(d) == d + 1
CloseDepth(d) == d - 1

\* SyntaxTreeVisitor::visit on node n with self.depth = d: the lines it
\* prints and self.depth when it returns
RECURSIVE VisitNode(_, _)
RECURSIVE VisitChildren(_, _)
VisitNode(n, d) ==
    LET name == DebugSyntax(n)
        kids == VisitChildren(n.children, OpenDepth(d))
        d2   == CloseDepth(kids.depth)
    IN  [out   |-> <<OpenLine(d, name)>> \o kids.out \o <<CloseLine(d2, name)>>,
         depth |-> d2]

\* the `for child in ...' loop of visit
VisitChildren(ch, d) ==
    IF ch = <<>> THEN [out |-> <<>>, depth |-> d]
    ELSE LET h == VisitNode(Head(ch), d)
             t == VisitChildren(Tail(ch), h.depth)
         IN  [out |-> h.out \o t.out, depth |-> t.depth]

\* the driver hands the tree Parser::parse returned to a SyntaxTreeVisitor
visit ==
    /\ mode = "parse"
    /\ status = "done"
    /\ LET v == VisitNode(tree, depth) IN
       /\ output' = v.out
       /\ depth' = v.depth
    /\ status' = "emitted"
    /\ UNCHANGED <<mode, input, current_byte, pos, current_token, stack, tree,
                   results, history, files, next_file, attempted>>

---------------------------------------------------------------------------
(* The batch driver: analyzer.rs Analyzer::run on a directory.  One step   *)
(* is one round of its `for f in source.read_dir()' loop; a panic ends the *)
(* whole run.                                                              *)

run ==
    /\ mode = "batch"
    /\ status = "walking"
    /\ IF next_file > Len(files)
       THEN status' = "walked" /\ UNCHANGED <<next_file, attempted>>
       ELSE LET f == files[next_file] IN
            IF f.ext = ""
            THEN status' = "panic" /\ UNCHANGED <<next_file, attempted>>
            ELSE IF f.ext # "jack"
            THEN /\ next_file' = next_file + 1
                 /\ UNCHANGED <<status, attempted>>
            ELSE /\ attempted' = attempted \cup {next_file}
                 /\ IF f.opens /\ f.compiles
                    THEN next_file' = next_file + 1 /\ status' = status
                    ELSE next_file' = next_file /\ status' = "panic"
    /\ UNCHANGED <<mode, input, current_byte, pos, current_token, stack, tree,
                   results, history, depth, output, files>>

---------------------------------------------------------------------------
(* Specifications *)

Next ==
    \/ test_export_xml
    \/ ParserNew
    \/ parse
    \/ parse_program
    \/ compile_block
    \/ parse_const_decl
    \/ parse_var_decl
    \/ parse_func_decl
    \/ parse_statement
    \/ parse_condition
    \/ parse_expression
    \/ parse_term
    \/ parse_factor
    \/ visit
    \/ run

Spec == Init /\ [][Next]_vars

\* the steps of Parser::new and Parser::parse
ParserNext ==
    \/ ParserNew
    \/ parse
    \/ parse_program
    \/ compile_block
    \/ parse_const_decl
    \/ parse_var_decl
    \/ parse_func_decl
    \/ parse_statement
    \/ parse_condition
    \/ parse_expression
    \/ parse_term
    \/ parse_factor

\* the Parser is sequential code: once called it runs on until it returns
\* or aborts
FairSpec == Spec /\ WF_vars(ParserNext)

---------------------------------------------------------------------------
(* What the properties below speak of *)

\* the first n results of calling get_next_token again and again, up to the
\* first call that returns no token
RECURSIVE LexFrom(_, _, _, _)
LexFrom(inp, cur, p, n) ==
    IF n = 0 THEN [toks |-> <<>>, fin |-> "cut"]
    ELSE LET r == get_next_token(inp, cur, p) IN
         IF r.st = "Hang" THEN [toks |-> <<>>, fin |-> "Hang"]
         ELSE IF ~r.res.ok THEN [toks |-> <<>>, fin |-> r.res.err]
         ELSE LET rest == LexFrom(inp, r.cur, r.pos, n - 1) IN
              [toks |-> <<r.res>> \o rest.toks, fin |-> rest.fin]

LexAlone(inp) == LexFrom(inp, NewCur(inp), NewPos(inp), MaxCalls)

\* the tokens of a tree's Terminal nodes, left to right
RECURSIVE Flatten(_)
RECURSIVE FlattenAll(_)
Flatten(n) == IF n.syntax = "Token" THEN <<n.token>> ELSE FlattenAll(n.children)
FlattenAll(ch) == IF ch = <<>> THEN <<>> ELSE Flatten(Head(ch)) \o FlattenAll(Tail(ch))

\* a node and everything below it
RECURSIVE Nodes(_)
Nodes(n) == {n} \cup UNION {Nodes(n.children[i]) : i \in 1..Len(n.children)}

\* the nodes the Parser has finished building
CompletedNodes ==
    (IF status = "done" THEN Nodes(tree) ELSE {})
    \cup UNION {UNION {Nodes(stack[i].node.children[j]) :
                           j \in 1..Len(stack[i].node.children)} :
                  i \in 1..Len(stack)}

TKw(n, k)   == n.syntax = "Token" /\ IsKw(n.token, k)
TSym(n, x)  == n.syntax = "Token" /\ IsSym(n.token, x)
TKind(n, k) == n.syntax = "Token" /\ IsKind(n.token, k)

\* Parser::parse has returned a tree, and each of its Terminal nodes wraps a
\* token (not an error result of get_next_token)
TreeReturned ==
    /\ status = "done"
    /\ \A n \in Nodes(tree) : n.syntax = "Token" => n.token.ok

---------------------------------------------------------------------------
(* Properties *)

\* C1 (token round trip): whenever Parser::parse has returned a tree, the
\* tokens of its Terminal nodes, left to right, are exactly the tokens that
\* repeated get_next_token calls produce for the same input.
C1_TokenRoundTrip ==
    TreeReturned => Flatten(tree) = LexAlone(input).toks

\* the syntax checks of C2, production by production
ConstDeclOk(ch) ==
    /\ Len(ch) >= 5
    /\ (Len(ch) - 1) % 4 = 0
    /\ TKw(ch[1], "Const")
    /\ \A i \in 0..((Len(ch) - 1) \div 4 - 1) :
         /\ TKind(ch[4 * i + 2], "Identifier")
         /\ TSym(ch[4 * i + 3], "Equal")
         /\ TKind(ch[4 * i + 4], "Number")
         /\ TSym(ch[4 * i + 5], IF 4 * i + 5 = Len(ch) THEN "SemiColon" ELSE "Comma")

FuncDeclOk(ch) ==
    /\ Len(ch) >= 6
    /\ TKw(ch[1], "Func")
    /\ TKind(ch[2], "Identifier")
    /\ TSym(ch[3], "Lparen")
    /\ Len(ch) = 6 \/ Len(ch) % 2 = 1
    /\ \A i \in 4..(Len(ch) - 3) :
         IF i % 2 = 0 THEN TKind(ch[i], "Identifier") ELSE TSym(ch[i], "Comma")
    /\ TSym(ch[Len(ch) - 2], "Rparen")
    /\ ch[Len(ch) - 1].syntax = "Block"
    /\ TSym(ch[Len(ch)], "SemiColon")

StatementOk(ch) ==
    \/ ch = <<>>
    \/ /\ Len(ch) = 3
       /\ TKind(ch[1], "Identifier")
       /\ TSym(ch[2], "Assign")
       /\ ch[3].syntax = "Expression"
    \/ /\ Len(ch) >= 3
       /\ Len(ch) % 2 = 1
       /\ TKw(ch[1], "Begin")
       /\ \A i \in 2..(Len(ch) - 1) :
            IF i % 2 = 0 THEN ch[i].syntax = "Statement" ELSE TSym(ch[i], "SemiColon")
       /\ TKw(ch[Len(ch)], "End")
    \/ /\ Len(ch) = 4
       /\ \/ TKw(ch[1], "If") /\ TKw(ch[3], "Then")
          \/ TKw(ch[1], "While") /\ TKw(ch[3], "Do")
       /\ ch[2].syntax = "Condition"
       /\ ch[4].syntax = "Statement"
    \/ /\ Len(ch) = 2
       /\ TKw(ch[1], "Ret") \/ TKw(ch[1], "Write")
       /\ ch[2].syntax = "Expression"
    \/ Len(ch) = 1 /\ TKw(ch[1], "WriteLn")

\* C2 (fail-fast syntax checking): Parser::parse returns a tree only for a
\* token sequence the grammar derives: in a returned tree every ConstDecl,
\* FuncDecl and Statement node holds the terminals its production
\* requires ('=' after a const identifier, ')' closing a parameter list,
\* 'then' after an if-condition, 'end' closing a begin-list, ...).
C2_FailFast ==
    TreeReturned =>
        \A n \in Nodes(tree) :
            /\ n.syntax = "ConstDecl" => ConstDeclOk(n.children)
            /\ n.syntax = "FuncDecl" => FuncDeclOk(n.children)
            /\ n.syntax = "Statement" => StatementOk(n.children)

\* a FuncDecl node whose own Block holds a VarDecl and a (non-empty) Statement
FuncDeclNested(f) ==
    /\ f.syntax = "FuncDecl"
    /\ \E j \in 1..Len(f.children) :
         /\ f.children[j].syntax = "Block"
         /\ \E k \in 1..Len(f.children[j].children) :
              f.children[j].children[k].syntax = "VarDecl"
         /\ \E k \in 1..Len(f.children[j].children) :
              /\ f.children[j].children[k].syntax = "Statement"
              /\ f.children[j].children[k].children # <<>>

\* the shape C3 describes
NestedShape(t) ==
    /\ t.syntax = "Program"
    /\ t.children # <<>>
    /\ TSym(t.children[Len(t.children)], "Period")
    /\ t.children[1].syntax = "Block"
    /\ LET b == t.children[1].children IN
       /\ Len(b) >= 2
       /\ b[Len(b)].syntax = "Statement"
       /\ b[Len(b)].children # <<>>
       /\ TKw(b[Len(b)].children[1], "Write")
       /\ \E i \in 1..(Len(b) - 1) : FuncDeclNested(b[i])

\* C3 (nested structure): parsing
\* `function f(); var x; begin x := 1 end; write x.' completes, and yields a
\* Program whose Block has a FuncDecl child (whose own Block holds a VarDecl
\* and a Statement) followed by a top-level `write' Statement, the Program's
\* last child being the period Terminal.  While the parse runs, every FuncDecl
\* node it has finished is therefore one with that Block; and the parse ends.
C3_NestedStructure ==
    /\ [](mode = "parse" /\ input = NestedSrc =>
             \A n \in CompletedNodes : n.syntax = "FuncDecl" => FuncDeclNested(n))
    /\ <>(mode = "parse" /\ input = NestedSrc =>
             status = "done" /\ NestedShape(tree))


\* the next call starts at a '/' '*' that no '*' '/' closes before the end of
\* the input
EntersOpenComment(inp, cur, p) ==
    LET ws == SkipWhitespace(inp, cur, p) IN
    /\ ws.ok
    /\ ws.cur = "/"
    /\ ws.pos < Len(inp)
    /\ inp[ws.pos + 1] = "*"
    /\ \A j \in (ws.pos + 2)..(Len(inp) - 1) : ~(inp[j] = "*" /\ inp[j + 1] = "/")

\* C4 (unterminated comment): a get_next_token call that enters a comment
\* which the input never closes returns Err(CommentNotTerminated): it
\* returns no token, does not return ReachedEOF, and does return.
C4_UnterminatedComment ==
    \A i \in 1..Len(history) :
        EntersOpenComment(input, history[i].cur0, history[i].pos0) =>
            history[i].st = "Ret" /\ history[i].res = ErrR("CommentNotTerminated")

\* the compound operator two bytes spell, "" if none
Compound(b1, b2) ==
    CASE b1 = ":" /\ b2 = "=" -> "Assign"
      [] b1 = "<" /\ b2 = ">" -> "NotEq"
      [] b1 = "<" /\ b2 = "=" -> "LssEq"
      [] b1 = ">" /\ b2 = "=" -> "GtrEq"
      [] OTHER                -> ""

\* ':=', '<>', '<=' or '>=' at a token start
CompoundAhead(inp, cur, p) ==
    LET ws == SkipWhitespace(inp, cur, p) IN
    /\ ws.ok
    /\ ws.pos >= 1
    /\ ws.pos < Len(inp)
    /\ Compound(ws.cur, inp[ws.pos + 1]) # ""

\* C5 (compound operators): when ':=', '<>', '<=' or '>=' stand at a token
\* start, get_next_token returns the one compound token and consumes both
\* bytes: the byte after the pair becomes the current byte, or, the pair
\* ending the input, the next call returns ReachedEOF; the second byte is
\* never made into a token of its own.
C5_CompoundOperators ==
    \A i \in 1..Len(history) :
        LET h  == history[i]
            ws == SkipWhitespace(input, h.cur0, h.pos0) IN
        CompoundAhead(input, h.cur0, h.pos0) =>
            /\ h.st = "Ret"
            /\ h.res = OkR(SymTok(Compound(ws.cur, input[ws.pos + 1])))
            /\ ws.pos + 1 < Len(input) =>
                   h.pos1 = ws.pos + 2 /\ h.cur1 = input[ws.pos + 2]
            /\ (ws.pos + 1 = Len(input) /\ i < Len(history)) =>
                   history[i + 1].res = ErrR("ReachedEOF")

\* the token a lone '<', '>' or '/' makes
Lone(b) == CASE b = "<" -> "Lss" [] b = ">" -> "Gtr" [] b = "/" -> "Div"

\* '<', '>' or '/' at a token start, followed by a byte that completes
\* neither a compound operator nor a comment start
LoneOperatorAhead(inp, cur, p) ==
    LET ws == SkipWhitespace(inp, cur, p) IN
    /\ ws.ok
    /\ ws.cur \in {"<", ">", "/"}
    /\ ws.pos < Len(inp)
    /\ Compound(ws.cur, inp[ws.pos + 1]) = ""
    /\ ~(ws.cur = "/" /\ inp[ws.pos + 1] = "*")

\* C6 (no byte loss after a one-byte operator): when '<', '>' or '/' is
\* followed by a byte that completes no compound operator or comment start,
\* get_next_token returns the lone token and that byte is the Tokenizer's
\* current byte, the reader standing right behind it; the next call's token
\* starts with it (a word for a letter, a number for a digit).
C6_NoByteLoss ==
    \A i \in 1..Len(history) :
        LET h  == history[i]
            ws == SkipWhitespace(input, h.cur0, h.pos0)
            b  == input[ws.pos + 1] IN
        LoneOperatorAhead(input, h.cur0, h.pos0) =>
            /\ h.st = "Ret"
            /\ h.res = OkR(SymTok(Lone(ws.cur)))
            /\ h.cur1 = b
            /\ h.pos1 = ws.pos + 1
            /\ (i < Len(history) /\ from_u8(b) = "Letter") =>
                   /\ history[i + 1].res.ok
                   /\ history[i + 1].res.tok.kind \in {"Identifier", "Keyword"}
                   /\ history[i + 1].res.tok.kind = "Identifier" =>
                          history[i + 1].res.tok.id[1] = b
            /\ (i < Len(history) /\ from_u8(b) = "Digit") =>
                   history[i + 1].res.ok /\ history[i + 1].res.tok.kind = "Number"

\* a call has returned a lone '<' in front of a letter, a lone '/' in front
\* of a digit or a lone '>' , and the call after it has been made
C6_Witness ==
    \E i \in 1..(Len(history) - 1) :
        /\ LoneOperatorAhead(input, history[i].cur0, history[i].pos0)
        /\ history[i].res.ok
        /\ from_u8(history[i].cur1) \in {"Letter", "Digit"}
        /\ history[i + 1].res.ok

\* C7 (end of stream): on a non-empty input, once get_next_token has
\* returned the token made of the last bytes (a call that starts with the
\* reader at the end of the file and returns a token), the next call returns
\* ReachedEOF and no token.
C7_EndOfStream ==
    \A i \in 1..(Len(history) - 1) :
        (Len(input) > 0 /\ history[i].pos0 = Len(input) /\ history[i].res.ok) =>
            (history[i + 1].st = "Ret" /\ history[i + 1].res = ErrR("ReachedEOF"))

\* the input with a whitespace byte put before its first token or after its
\* last one, or such a byte taken away
WhitespaceVariants(inp) ==
    {<<" ">> \o inp, inp \o <<" ">>, inp \o <<"\n">>}
    \cup (IF inp # <<>> /\ IsWhitespace(inp[Len(inp)])
          THEN {SubSeq(inp, 1, Len(inp) - 1)} ELSE {})
    \cup (IF inp # <<>> /\ IsWhitespace(inp[1]) THEN {Tail(inp)} ELSE {})

\* C8 (whitespace invariance): when the token loop has run through an input,
\* the same input with whitespace added or removed before its first token
\* or after its last one gives the same token sequence.
C8_WhitespaceInvariance ==
    (mode = "lex" /\ status = "eof") =>
        \A v \in WhitespaceVariants(input) :
            LexAlone(v).toks = [i \in 1..Len(results) |-> OkR(results[i])]

\* the children of a Factor that starts with an identifier: the identifier
\* alone, or identifier '(' ')' with no Expression, or identifier '(' then
\* n >= 1 Expressions with n-1 commas between them, then a closing Terminal
IdentFactorOk(ch) ==
    \/ Len(ch) = 1
    \/ Len(ch) = 3 /\ TSym(ch[2], "Lparen") /\ TSym(ch[3], "Rparen")
    \/ /\ Len(ch) >= 4
       /\ Len(ch) % 2 = 0
       /\ TSym(ch[2], "Lparen")
       /\ \A i \in 3..(Len(ch) - 1) :
            IF i % 2 = 1 THEN ch[i].syntax = "Expression" ELSE TSym(ch[i], "Comma")
       /\ ch[Len(ch)].syntax = "Token"

\* parse_factor has consumed an identifier and the token behind it is not '('
BareReference ==
    At("parse_factor", "ident") /\ ~IsSym(current_token, "Lparen")

\* the Factor handed to the caller in this step is the identifier alone, and
\* the step consumes nothing
ReturnsBareFactor ==
    /\ current_token' = current_token
    /\ current_byte' = current_byte
    /\ pos' = pos
    /\ history' = history
    /\ Len(stack') = Len(stack) - 1
    /\ LET ch == stack'[Len(stack')].node.children
           f  == ch[Len(ch)] IN
       /\ f.syntax = "Factor"
       /\ Len(f.children) = 1
       /\ TKind(f.children[1], "Identifier")

\* C9 (bare reference vs. call): an identifier whose next token is not '('
\* yields a Factor whose only child is the identifier Terminal, the next
\* token staying unconsumed; an identifier followed by '(' ')' yields the
\* children identifier, '(' , ')' and no Expression; with n >= 1 arguments
\* there are exactly n Expression children separated by n-1 commas.
C9_BareReferenceVsCall ==
    /\ [](\A n \in CompletedNodes :
            (n.syntax = "Factor" /\ n.children # <<>>
                /\ TKind(n.children[1], "Identifier")) => IdentFactorOk(n.children))
    /\ [][BareReference => ReturnsBareFactor]_vars

\* a returned tree holds a bare reference, a call without arguments and a
\* call with two arguments
C9_Witness ==
    /\ TreeReturned
    /\ \E a, b, c \in Nodes(tree) :
         /\ a.syntax = "Factor" /\ b.syntax = "Factor" /\ c.syntax = "Factor"
         /\ Len(a.children) = 1 /\ TKind(a.children[1], "Identifier")
         /\ Len(b.children) = 3 /\ TKind(b.children[1], "Identifier")
         /\ TSym(b.children[3], "Rparen")
         /\ Len(c.children) = 6 /\ TKind(c.children[1], "Identifier")
         /\ TSym(c.children[4], "Comma")

\* C10 (root shape): every tree Parser::parse returns has a root tagged
\* Program with exactly two children, a Block node and then a Terminal
\* wrapping the period symbol.
C10_RootShape ==
    TreeReturned =>
        /\ tree.syntax = "Program"
        /\ Len(tree.children) = 2
        /\ tree.children[1].syntax = "Block"
        /\ TSym(tree.children[2], "Period")

\* C11 (no partial trees): a node the Parser has built never wraps an error
\* result of get_next_token as if it were a token; and when Parser::parse
\* has returned a tree, no get_next_token call failed before a call had
\* returned the period.
C11_NoPartialTrees ==
    /\ \A n \in CompletedNodes : n.syntax = "Token" => n.token.ok
    /\ status = "done" =>
          \A i \in 1..Len(history) :
              ~history[i].res.ok =>
                  \E j \in 1..(i - 1) : IsSym(history[j].res, "Period")


\* a printed line read back: whether it is a closing tag, and the tag's name
IsClosing(l) == Head(l.text) = "</"
TagName(l) == SubSeq(l.text, 2, Len(l.text) - 1)

\* the lines are properly nested tags, opened[k] being the name of the k-th
\* tag still open, and every line is indented by the number of tags open
\* around it
RECURSIVE Nested(_, _)
Nested(ls, opened) ==
    IF ls = <<>> THEN opened = <<>>
    ELSE LET l == Head(ls) IN
         /\ Len(l.text) >= 3
         /\ Head(l.text) \in {"<", "</"}
         /\ l.text[Len(l.text)] = ">"
         /\ IF IsClosing(l)
            THEN /\ opened # <<>>
                 /\ opened[Len(opened)] = TagName(l)
                 /\ l.indent = Len(opened) - 1
                 /\ Nested(Tail(ls), SubSeq(opened, 1, Len(opened) - 1))
            ELSE /\ l.indent = Len(opened)
                 /\ Nested(Tail(ls), Append(opened, TagName(l)))

\* the nodes of a tree in depth-first order, children in stored order, each
\* with its depth
RECURSIVE Preorder(_, _)
RECURSIVE PreorderAll(_, _)
Preorder(n, d) == <<[node |-> n, depth |-> d]>> \o PreorderAll(n.children, d + 1)
PreorderAll(ch, d) ==
    IF ch = <<>> THEN <<>> ELSE Preorder(Head(ch), d) \o PreorderAll(Tail(ch), d)

\* the opening tags among the lines, in order
RECURSIVE OpeningLines(_)
OpeningLines(ls) ==
    IF ls = <<>> THEN <<>>
    ELSE (IF IsClosing(Head(ls)) THEN <<>> ELSE <<Head(ls)>>) \o OpeningLines(Tail(ls))

\* C12 (emitter nesting): what visit has printed for a tree is properly
\* nested (each opening tag closed once, by a tag of the same name, around
\* the output of its children), it opens one tag per node in depth-first
\* stored order, each line is indented by its node's depth, and the
\* visitor's depth counter is after the visit what it was before.
C12_EmitterNesting ==
    /\ [](status = "emitted" =>
            /\ Nested(output, <<>>)
            /\ LET pre == Preorder(tree, 0)
                   ops == OpeningLines(output) IN
               /\ Len(ops) = Len(pre)
               /\ Len(output) = 2 * Len(pre)
               /\ \A k \in 1..Len(pre) :
                    /\ ops[k].indent = pre[k].depth
                    /\ TagName(ops[k]) = DebugSyntax(pre[k].node))
    /\ [][status = "done" /\ status' = "emitted" => depth' = depth]_vars

\* a tree four levels deep, with a node of several children, has been
\* printed
C12_Witness ==
    /\ status = "emitted"
    /\ \E k \in 1..Len(output) : output[k].indent >= 3
    /\ \E n \in Nodes(tree) : Len(n.children) >= 3


\* the reserved words, and the source text of a token
ReservedWords ==
    {W_begin, W_end, W_if, W_then, W_while, W_do, W_return, W_function, W_var,
     W_const, W_odd, W_write, W_writeln}
SourceText(t) ==
    CASE t.kind = "Keyword"    -> CHOOSE w \in ReservedWords : KeywordTryFrom(w) = t.kw
      [] t.kind = "Identifier" -> t.id
      [] t.kind = "Number"     -> DecimalDigits(t.num)
      [] t.kind = "Symbol"     -> <<t.sym>>

\* the texts of a single tag named for the token's kind around the token's
\* source text (the kind in either case, the body with or without blanks)
TerminalTexts(t) ==
    LET kinds == CASE t.kind = "Keyword"    -> {"keyword", "Keyword"}
                   [] t.kind = "Identifier" -> {"identifier", "Identifier"}
                   [] t.kind = "Number"     -> {"number", "Number"}
                   [] t.kind = "Symbol"     -> {"symbol", "Symbol"}
    IN  {<<"<", k, ">">> \o pad \o SourceText(t) \o pad \o <<"</", k, ">">> :
             k \in kinds, pad \in {<<>>, <<" ">>}}

\* C13 (emitter terminals): in what visit has printed, every Terminal node
\* of the tree appears as a single tag named for its token's kind (keyword,
\* symbol, identifier, number) whose body is the token's source text.
C13_EmitterTerminals ==
    status = "emitted" =>
        \A n \in Nodes(tree) :
            (n.syntax = "Token" /\ n.token.ok) =>
                \E k \in 1..Len(output) : output[k].text \in TerminalTexts(n.token.tok)


\* C14 (batch independence): when Analyzer::run on a directory has ended,
\* every entry with the source extension has been attempted, whatever
\* happened to the entries before it (every entry having an extension).
C14_BatchIndependence ==
    (/\ mode = "batch"
     /\ status \in {"walked", "panic"}
     /\ \A i \in 1..Len(files) : files[i].ext # "") =>
        \A i \in 1..Len(files) : files[i].ext = "jack" => i \in attempted


\* the Parser is at the head of the repetition loop of parse_expression or
\* parse_term, having parsed an operand (a Term or Factor with children),
\* and the current token is a keyword, an identifier or a number
AtLoopHeadWithWord ==
    /\ At("parse_expression", "loop") \/ At("parse_term", "loop")
    /\ Top.node.children # <<>>
    /\ Top.node.children[Len(Top.node.children)].children # <<>>
    /\ current_token.ok
    /\ current_token.tok.kind \in {"Keyword", "Identifier", "Number"}

\* the parse has ended, or the model has cut it off at one of its bounds, or
\* the Tokenizer itself does not return
ParseOver ==
    \/ status \in {"done", "emitted", "panic"}
    \/ status \in {"hang", "overflow"}
    \/ Len(history) >= MaxCalls

\* C15 (parser termination): at the head of its repetition loop with a
\* keyword, identifier or number as current token, parse_expression or
\* parse_term can take a step that leaves the loop; and every parse
\* eventually returns.
C15_ParserTermination ==
    /\ [](AtLoopHeadWithWord => ENABLED <<parse_expression \/ parse_term>>_vars)
    /\ <>(mode = "parse" => ParseOver)


\* the digits of inp from position p on
RECURSIVE DigitsFrom(_, _)
DigitsFrom(inp, p) ==
    IF p <= Len(inp) /\ inp[p] \in Digits THEN <<inp[p]>> \o DigitsFrom(inp, p + 1)
    ELSE <<>>

\* a digit string without its leading zeros (one digit at least)
RECURSIVE StripZeros(_)
StripZeros(ds) ==
    IF Len(ds) > 1 /\ Head(ds) = "0" THEN StripZeros(Tail(ds)) ELSE ds

\* where call h starts once it has skipped whitespace
StartOf(h) == SkipWhitespace(input, h.cur0, h.pos0)

\* C16 (number literals): a get_next_token call that, after whitespace,
\* starts at a digit returns Number(v), v being the decimal value of the
\* longest run of digits starting there; and the byte after the run, if
\* there is one, is the current byte afterwards.
C16_NumberLiterals ==
    \A i \in 1..Len(history) :
        LET h   == history[i]
            ws  == StartOf(h)
            ds  == <<ws.cur>> \o DigitsFrom(input, ws.pos + 1)
            nxt == ws.pos + Len(ds)
        IN  (ws.ok /\ ws.cur \in Digits) =>
                /\ h.st = "Ret"
                /\ IsKind(h.res, "Number")
                /\ h.res.tok.num >= 0
                /\ DecimalDigits(h.res.tok.num) = StripZeros(ds)
                /\ nxt <= Len(input) => (h.pos1 = nxt /\ h.cur1 = input[nxt])


\* the letters and digits of inp from position p on
RECURSIVE WordFrom(_, _)
WordFrom(inp, p) ==
    IF p <= Len(inp) /\ inp[p] \in Letters \cup Digits
    THEN <<inp[p]>> \o WordFrom(inp, p + 1)
    ELSE <<>>

\* the 13 reserved words and the keyword each one stands for
ReservedKeyword(w) ==
    CASE w = W_begin -> "Begin" [] w = W_end -> "End" [] w = W_if -> "If"
      [] w = W_then -> "Then" [] w = W_while -> "While" [] w = W_do -> "Do"
      [] w = W_return -> "Ret" [] w = W_function -> "Func" [] w = W_var -> "Var"
      [] w = W_const -> "Const" [] w = W_odd -> "Odd" [] w = W_write -> "Write"
      [] w = W_writeln -> "WriteLn"

\* C17 (words): a get_next_token call that, after whitespace, starts at a
\* letter takes the longest run of letters and digits starting there; it
\* returns the keyword of that run if the run is one of the 13 reserved
\* words, and otherwise Identifier with exactly the run's text; the byte
\* after the run, if there is one, is the current byte afterwards.
C17_Words ==
    \A i \in 1..Len(history) :
        LET h   == history[i]
            ws  == StartOf(h)
            w   == <<ws.cur>> \o WordFrom(input, ws.pos + 1)
            nxt == ws.pos + Len(w)
        IN  (ws.ok /\ ws.cur \in Letters) =>
                /\ h.st = "Ret"
                /\ h.res.ok
                /\ IF w \in ReservedWords
                   THEN h.res.tok = KwTok(ReservedKeyword(w))
                   ELSE h.res.tok = IdTok(w)
                /\ nxt <= Len(input) => (h.pos1 = nxt /\ h.cur1 = input[nxt])

\* calls have returned the keyword of a reserved word and, for a word that
\* only begins with one, an identifier
C17_Witness ==
    /\ \E i \in 1..Len(history) :
          /\ IsKind(history[i].res, "Identifier")
          /\ Len(history[i].res.tok.id) > 3
          /\ SubSeq(history[i].res.tok.id, 1, 3) = W_end
    /\ \E i \in 1..Len(history) : IsKw(history[i].res, "End")


\* the one-byte symbols of C18 and the Symbol of each
OwnSymbol(b) ==
    CASE b = "+" -> "Plus" [] b = "-" -> "Minus" [] b = "*" -> "Mult"
      [] b = "(" -> "Lparen" [] b = ")" -> "Rparen" [] b = "=" -> "Equal"
      [] b = "," -> "Comma" [] b = "." -> "Period" [] b = ";" -> "SemiColon"
OneByteSymbols == {"+", "-", "*", "(", ")", "=", ",", ".", ";"}

\* the byte after position p of the input is b
NextIs(p, b) == p < Len(input) /\ input[p + 1] = b

\* C18 (undefined bytes): a get_next_token call returns Err(UndefinedToken)
\* exactly when the byte it is at after whitespace is not a digit, a letter,
\* one of + - * / ( ) = < > , . ; or a ':' with '=' right after it (calls
\* that start at a comment are set aside: their result is that of the text
\* after the comment); and at one of + - * ( ) = , . ; it returns that
\* byte's own Symbol and moves on to the byte after it.
C18_UndefinedBytes ==
    \A i \in 1..Len(history) :
        LET h  == history[i]
            ws == StartOf(h)
            b  == ws.cur
            defined ==
                \/ b \in Digits \cup Letters \cup OneByteSymbols \cup {"/", "<", ">"}
                \/ b = ":" /\ NextIs(ws.pos, "=")
        IN  /\ ~ws.ok => h.res # ErrR("UndefinedToken")
            /\ (ws.ok /\ ~(b = "/" /\ NextIs(ws.pos, "*"))) =>
                   /\ h.st = "Ret"
                   /\ h.res = ErrR("UndefinedToken") <=> ~defined
                   /\ b \in OneByteSymbols =>
                        /\ h.res = OkR(SymTok(OwnSymbol(b)))
                        /\ ws.pos < Len(input) =>
                              (h.pos1 = ws.pos + 1 /\ h.cur1 = input[ws.pos + 1])


\* the first position from k on at which the two bytes '*' '/' start, or 0
RECURSIVE FirstEndMarker(_, _)
FirstEndMarker(inp, k) ==
    IF k >= Len(inp) THEN 0
    ELSE IF inp[k] = "*" /\ inp[k + 1] = "/" THEN k
    ELSE FirstEndMarker(inp, k + 1)

\* C19 (comment end): a get_next_token call that, after whitespace, starts
\* at '/' '*' leaves the comment at the first '*' '/' that starts after the
\* opening marker: when a byte follows that end marker, the call's outcome
\* is that of tokenizing from this byte on.
C19_CommentEnd ==
    \A i \in 1..Len(history) :
        LET h  == history[i]
            ws == StartOf(h)
            k  == FirstEndMarker(input, ws.pos + 2)
        IN  (/\ ws.ok
             /\ ws.cur = "/"
             /\ ws.pos >= 1
             /\ NextIs(ws.pos, "*")
             /\ k > 0
             /\ k + 2 <= Len(input)) =>
                LET r == get_next_token(input, input[k + 2], k + 2) IN
                /\ h.st = r.st
                /\ h.res = r.res
                /\ h.cur1 = r.cur
                /\ h.pos1 = r.pos


\* the tokens of the Terminal nodes built so far, left to right: the frames
\* of the stack hold the unfinished nodes, the outermost first
RECURSIVE StackTokens(_)
StackTokens(s) ==
    IF s = <<>> THEN <<>>
    ELSE FlattenAll(Head(s).node.children) \o StackTokens(Tail(s))

BuiltTokens == IF status = "done" THEN Flatten(tree) ELSE StackTokens(stack)

\* compile_block has taken a const / var / function keyword by fetching the
\* token after it, and the declaration procedure has not yet put the keyword
\* into its node
KeywordTaken ==
    /\ status = "running"
    /\ stack # <<>>
    /\ \/ Top.fn = "compile_block" /\ Top.pc \in {"const", "var", "function"}
       \/ /\ Top.fn \in {"parse_const_decl", "parse_var_decl", "parse_func_decl"}
          /\ Top.pc = "start"

\* each get_next_token call starts from the byte and the place the previous
\* one left and never moves back; when it returns, the byte it leaves is the
\* one at the place it stopped, and the Tokenizer holds just these two
ReadsForward ==
    /\ \A i \in 1..Len(history) :
          /\ history[i].pos0 <= history[i].pos1
          /\ i > 1 => /\ history[i].pos0 = history[i - 1].pos1
                      /\ history[i].cur0 = history[i - 1].cur1
          /\ (history[i].st = "Ret" /\ history[i].pos1 \in 1..Len(input)) =>
                 history[i].cur1 = input[history[i].pos1]
    /\ history # <<>> => /\ pos = history[Len(history)].pos1
                         /\ current_byte = history[Len(history)].cur1

\* C20 (one-token lookahead): while the Parser runs and when it has
\* returned, the token it holds is the result of the latest get_next_token
\* call and every earlier result has been consumed, in order, one call per
\* consumed token: it is a Terminal node of the tree under construction, or
\* the declaration keyword compile_block has just taken.  The Tokenizer
\* reads forward only, holding one byte.
C20_OneTokenLookahead ==
    /\ (mode = "parse" /\ status \in {"running", "done", "overflow", "panic"}) =>
          LET n    == Len(history)
              b    == BuiltTokens
              held == IF KeywordTaken THEN 1 ELSE 0
          IN  /\ n = Len(b) + held + 1
              /\ current_token = history[n].res
              /\ \A i \in 1..Len(b) : i < n => b[i] = history[i].res
              /\ KeywordTaken =>
                     \E k \in {"Const", "Var", "Func"} : IsKw(history[n - 1].res, k)
    /\ ReadsForward

\* a parse that consumed a declaration keyword and three more tokens has
\* returned
C20_Witness ==
    /\ mode = "parse"
    /\ status = "done"
    /\ Len(history) >= 5
    /\ \E i \in 1..Len(history) : IsKw(history[i].res, "Var")


\* a Terminal that wraps '+' or '-'
IsSignT(n) == TSym(n, "Plus") \/ TSym(n, "Minus")

\* zero or more pairs of a sign Terminal and a Term
RECURSIVE SignTermPairs(_)
SignTermPairs(ch) ==
    \/ ch = <<>>
    \/ /\ Len(ch) >= 2
       /\ IsSignT(ch[1])
       /\ ch[2].syntax = "Term"
       /\ SignTermPairs(SubSeq(ch, 3, Len(ch)))

\* an optional sign Terminal, a Term, then pairs of a sign Terminal and a Term
ExpressionShape(ch) ==
    LET rest == IF ch # <<>> /\ IsSignT(ch[1]) THEN Tail(ch) ELSE ch IN
    /\ rest # <<>>
    /\ rest[1].syntax = "Term"
    /\ SignTermPairs(Tail(rest))

\* C21 (expression shape): the children of every Expression node the Parser
\* has finished are an optional single '+' or '-' Terminal, a Term, then
\* zero or more pairs of a '+' or '-' Terminal and a Term.
C21_ExpressionShape ==
    \A n \in CompletedNodes : n.syntax = "Expression" => ExpressionShape(n.children)

\* a returned tree has an Expression with a leading sign, a Term, and a
\* further sign and Term
C21_Witness ==
    /\ status = "done"
    /\ \E n \in Nodes(tree) :
          /\ n.syntax = "Expression"
          /\ Len(n.children) >= 4
          /\ IsSignT(n.children[1])
          /\ IsSignT(n.children[3])


\* a Terminal that wraps '*' or '/'
IsMultDivT(n) == TSym(n, "Mult") \/ TSym(n, "Div")

\* child i of node n stands between two children tagged `syntax'
Between(n, i, syntax) ==
    /\ 1 < i
    /\ i < Len(n.children)
    /\ n.children[i - 1].syntax = syntax
    /\ n.children[i + 1].syntax = syntax

\* C22 (operator grouping): in the nodes the Parser has finished, a '*' or
\* '/' Terminal is a child of a Term node and stands between two Factor
\* children; a '+' or '-' Terminal is a child of an Expression node and is
\* its leading sign or stands between two Term children; and a Factor that
\* starts with '(' has the children '(' Expression ')'.
C22_OperatorGrouping ==
    \A n \in CompletedNodes :
      /\ \A i \in 1..Len(n.children) :
            /\ IsMultDivT(n.children[i]) =>
                   n.syntax = "Term" /\ Between(n, i, "Factor")
            /\ IsSignT(n.children[i]) =>
                   n.syntax = "Expression" /\ (i = 1 \/ Between(n, i, "Term"))
      /\ (n.syntax = "Factor" /\ n.children # <<>> /\ TSym(n.children[1], "Lparen")) =>
            /\ Len(n.children) = 3
            /\ n.children[2].syntax = "Expression"
            /\ TSym(n.children[3], "Rparen")


\* a Terminal that wraps one of = <> < > <= >=
IsRelOpT(n) == \E x \in {"Equal", "NotEq", "Lss", "Gtr", "LssEq", "GtrEq"} : TSym(n, x)

ConditionShape(ch) ==
    \/ /\ Len(ch) = 2
       /\ TKw(ch[1], "Odd")
       /\ ch[2].syntax = "Expression"
    \/ /\ Len(ch) = 3
       /\ ch[1].syntax = "Expression"
       /\ IsRelOpT(ch[2])
       /\ ch[3].syntax = "Expression"

\* C23 (condition shape): in a tree Parser::parse has returned, every
\* Condition node has the children 'odd' Expression, or Expression,
\* a Terminal wrapping a relational symbol, Expression.
C23_ConditionShape ==
    TreeReturned =>
        \A n \in Nodes(tree) : n.syntax = "Condition" => ConditionShape(n.children)


\* the place parse_statement goes to after wrapping the token that selects
\* one of its alternatives; "none" for a token that selects none
Alternative(r) ==
    CASE IsKind(r, "Identifier")            -> "assign"
      [] IsKw(r, "Begin")                   -> "statement"
      [] IsKw(r, "If") \/ IsKw(r, "While")  -> "condition"
      [] IsKw(r, "Ret") \/ IsKw(r, "Write") -> "expression"
      [] IsKw(r, "WriteLn")                 -> "ret"
      [] OTHER                              -> "none"

\* the non-terminal layout of each alternative: which children are
\* Terminals and which are nodes of which kind
RECURSIVE StatementList(_)
StatementList(ch) ==
    /\ ch # <<>>
    /\ ch[1].syntax = "Statement"
    /\ \/ Len(ch) = 2 /\ ch[2].syntax = "Token"
       \/ Len(ch) > 2 /\ ch[2].syntax = "Token" /\ StatementList(SubSeq(ch, 3, Len(ch)))

Kinds(ch) == [i \in 1..Len(ch) |-> ch[i].syntax]

StatementLayout(ch) ==
    \/ ch = <<>>
    \/ /\ ch[1].syntax = "Token"
       /\ LET a == Alternative(ch[1].token) IN
          CASE a = "assign"     -> Kinds(ch) = <<"Token", "Token", "Expression">>
            [] a = "statement"  -> StatementList(Tail(ch))
            [] a = "condition"  -> Kinds(ch) = <<"Token", "Condition", "Token", "Statement">>
            [] a = "expression" -> Kinds(ch) = <<"Token", "Expression">>
            [] a = "ret"        -> Len(ch) = 1
            [] OTHER            -> FALSE

\* C24 (statement selection, empty statement): a step of parse_statement
\* from its start either wraps the current token and goes on with the
\* alternative this token alone selects, or, the token selecting none,
\* returns a Statement node without children to the caller and leaves the
\* current token, the Tokenizer's byte and position and its calls as they
\* were; and every finished Statement node has the layout of the
\* alternative its first token selects.
C24_StatementSelection ==
    /\ [](\A n \in CompletedNodes : n.syntax = "Statement" => StatementLayout(n.children))
    /\ [][At("parse_statement", "start") =>
            IF Alternative(current_token) = "none"
            THEN /\ current_token' = current_token
                 /\ current_byte' = current_byte
                 /\ pos' = pos
                 /\ history' = history
                 /\ status' = status
                 /\ Len(stack') = Len(stack) - 1
                 /\ stack'[Len(stack')].node.children =
                        Append(stack[Len(stack) - 1].node.children, NewNode("Statement"))
            ELSE status' = "running" =>
                 /\ Len(stack') = Len(stack)
                 /\ stack'[Len(stack')].node.children = <<Terminal(current_token)>>
                 /\ stack'[Len(stack')].pc = Alternative(current_token)
                 /\ Len(history') = Len(history) + 1]_vars

\* an empty statement has been returned to a begin-list, after a statement
\* selected by its keyword
C24_Witness ==
    /\ mode = "parse"
    /\ status = "done"
    /\ \E n \in Nodes(tree) :
          /\ n.syntax = "Statement"
          /\ Len(n.children) >= 5
          /\ TKw(n.children[1], "Begin")
          /\ n.children[2].children # <<>>
          /\ \E i \in 1..Len(n.children) : n.children[i] = NewNode("Statement")


\* C25 (node invariants): in a tree Parser::parse has returned, every
\* Terminal node has no children and wraps a token, and every other node
\* except a Statement has at least one child.
C25_NodeInvariants ==
    status = "done" =>
        \A n \in Nodes(tree) :
            /\ n.syntax = "Token" =>
                   /\ n.children = <<>>
                   /\ n.token.ok
                   /\ n.token.tok.kind \in {"Keyword", "Symbol", "Identifier", "Number"}
            /\ n.syntax \notin {"Token", "Statement"} => n.children # <<>>


\* C26 (empty and whitespace-only input): on an input of no bytes, or of
\* whitespace only, the first get_next_token call returns ReachedEOF.
C26_EmptyInput ==
    (/\ mode \in {"lex", "parse"}
     /\ history # <<>>
     /\ \A k \in 1..Len(input) : IsWhitespace(input[k])) =>
        /\ history[1].st = "Ret"
        /\ history[1].res = ErrR("ReachedEOF")


\* the digits of 2^31 - 1, the largest i32
MaxI32Digits == <<"2","1","4","7","4","8","3","6","4","7">>

\* of two digit strings of one length, the first is the greater number
RECURSIVE DigitsGreater(_, _)
DigitsGreater(a, b) ==
    /\ a # <<>>
    /\ \/ DigitVal(Head(a)) > DigitVal(Head(b))
       \/ Head(a) = Head(b) /\ DigitsGreater(Tail(a), Tail(b))

\* the decimal value of the digit string exceeds 2^31 - 1
ExceedsI32(ds) ==
    LET d == StripZeros(ds) IN
    \/ Len(d) > Len(MaxI32Digits)
    \/ Len(d) = Len(MaxI32Digits) /\ DigitsGreater(d, MaxI32Digits)

\* C27 (number range): every Number token get_next_token returns carries a
\* value from 0 to 2^31 - 1 that is the decimal value of the digit run it was
\* read from; a run whose value exceeds 2^31 - 1 yields no Number token.
C27_NumberRange ==
    \A i \in 1..Len(history) :
        LET h  == history[i]
            ws == StartOf(h)
            ds == <<ws.cur>> \o DigitsFrom(input, ws.pos + 1)
        IN  (h.st = "Ret" /\ IsKind(h.res, "Number")) =>
                /\ ~ExceedsI32(ds)
                /\ h.res.tok.num >= 0
                /\ h.res.tok.num <= 2147483647
                /\ DecimalDigits(h.res.tok.num) = StripZeros(ds)


\* C28 (lexer state on error): a get_next_token call that returns
\* UndefinedToken leaves the Tokenizer at the byte and the position where,
\* whitespace skipped, the call started, and a call made from there returns
\* UndefinedToken again.
C28_LexerStateOnError ==
    \A i \in 1..Len(history) :
        LET h  == history[i]
            ws == StartOf(h)
        IN  (h.st = "Ret" /\ h.res = ErrR("UndefinedToken")) =>
                /\ h.cur1 = ws.cur
                /\ h.pos1 = ws.pos
                /\ get_next_token(input, h.cur1, h.pos1).res = ErrR("UndefinedToken")


===========================================================================
